---- MODULE Spec2Model ----
(***************************************************************************)
(* A model of GeoJsonLint (src/geojson_validator/schema_validation.py):    *)
(* one validator instance, its four fields, and the lint operation with    *)
(* the whole recursive walk it performs.                                   *)
(*                                                                         *)
(* JSON values are tagged records: k is the Python type of the decoded     *)
(* value.  A scalar carries its JSON text in v (JInt("1"), JBool("true")), *)
(* a list its elements as a sequence in a, a dict the function from its    *)
(* keys to its values in o.  A JSON pointer path is the sequence of its    *)
(* segments ("/features/0" is <<"features", "0">>), the root "" is <<>>.   *)
(***************************************************************************)
EXTENDS Integers, Sequences, FiniteSets, TLC

VARIABLES check_crs, feature_idx, line_map, errors, calls, doc, ret, log, mark

vars == <<check_crs, feature_idx, line_map, errors, calls, doc, ret, log, mark>>

-----------------------------------------------------------------------------
(* Decoded JSON values *)

JNull == [k |-> "null"]
JBool(s) == [k |-> "bool", v |-> s]
JInt(s) == [k |-> "int", v |-> s]
JFloat(s) == [k |-> "float", v |-> s]
JStr(s) == [k |-> "str", v |-> s]
JArr(a) == [k |-> "arr", a |-> a]
JObj(f) == [k |-> "obj", o |-> f]

EmptyDict == JObj(<<>>)

\* Python's None, where the code stores it beside integers (a line, a feature index).
None == -1

\* self.line_map = None
NoLineMap == <<>>

\* isinstance(x, dict), isinstance(x, list)
IsDict(x) == x.k = "obj"
IsList(x) == x.k = "arr"

\* isinstance(x, (str, int)): bool is a subclass of int
IsStrOrInt(x) == x.k \in {"str", "int", "bool"}

\* isinstance(x, (int, float)): bool is a subclass of int
IsIntOrFloat(x) == x.k \in {"int", "float", "bool"}

\* bool(x), the truth value Python's `if x` and `not x` test
Truthy(x) ==
    CASE x.k = "null" -> FALSE
      [] x.k = "bool" -> x.v = "true"
      [] x.k = "int" -> x.v # "0"
      [] x.k = "float" -> x.v # "0.0"
      [] x.k = "str" -> x.v # ""
      [] x.k = "arr" -> Len(x.a) > 0
      [] x.k = "obj" -> DOMAIN x.o # {}

\* type(x).__name__
TypeName(x) ==
    CASE x.k = "null" -> "NoneType"
      [] x.k = "bool" -> "bool"
      [] x.k = "int" -> "int"
      [] x.k = "float" -> "float"
      [] x.k = "str" -> "str"
      [] x.k = "arr" -> "list"
      [] x.k = "obj" -> "dict"

Digits == <<"0", "1", "2", "3", "4", "5", "6", "7", "8", "9">>

\* str(n) of a one-digit integer, as an f-string renders an index
IntStr(n) == Digits[n + 1]

\* str(x) of a scalar, as an f-string renders it: an int and a float as their JSON text
PyStr(x) ==
    CASE x.k = "str" -> x.v
      [] x.k = "int" -> x.v
      [] x.k = "float" -> x.v
      [] x.k = "bool" -> IF x.v = "true" THEN "True" ELSE "False"
      [] x.k = "null" -> "None"

RECURSIVE JoinQuoted(_, _)
JoinQuoted(names, i) ==
    IF i > Len(names) THEN ""
    ELSE (IF i > 1 THEN ", " ELSE "") \o "'" \o names[i] \o "'" \o JoinQuoted(names, i + 1)

\* str(list_of_str), as an f-string renders a list of strings
PyReprList(names) == "[" \o JoinQuoted(names, 1) \o "]"

\* obj.get(name)
Get(obj, name) == IF name \in DOMAIN obj.o THEN obj.o[name] ELSE JNull

\* value == "literal" for a decoded JSON value
EqStr(x, s) == x.k = "str" /\ x.v = s

\* value in list_of_str
InList(x, names) == x.k = "str" /\ \E i \in 1..Len(names) : names[i] = x.v

GEOMETRY_TYPES ==
    <<"FeatureCollection", "Feature", "Point", "LineString", "Polygon",
      "MultiPoint", "MultiLineString", "MultiPolygon", "GeometryCollection">>

GEOJSON_TYPES == <<"FeatureCollection", "Feature">> \o GEOMETRY_TYPES

-----------------------------------------------------------------------------
(* json.dumps(sort_keys=True, indent=2) and json_source_map.calculate:    *)
(* every value starts on a line of its own; a non-empty container takes   *)
(* its opening line, its members' lines and its closing line.             *)

\* The member names of the documents, in the order sort_keys puts them.
SortedKeys ==
    <<"coordinates", "crs", "features", "geometries", "geometry", "id",
      "properties", "type">>

KeyRank(key) == CHOOSE i \in 1..Len(SortedKeys) : SortedKeys[i] = key

RECURSIVE SumOver(_, _)
SumOver(f, S) ==
    IF S = {} THEN 0
    ELSE LET x == CHOOSE y \in S : TRUE IN f[x] + SumOver(f, S \ {x})

\* The members of a container: its elements by position, its values by key.
Members(x) == IF x.k = "arr" THEN x.a ELSE x.o

RECURSIVE NLines(_)
NLines(x) ==
    IF x.k \in {"arr", "obj"} /\ DOMAIN Members(x) # {}
    THEN 2 + SumOver([m \in DOMAIN Members(x) |-> NLines(Members(x)[m])], DOMAIN Members(x))
    ELSE 1

\* The members serialized before member m of container x.
Before(x, m) ==
    IF x.k = "arr" THEN 1..(m - 1)
    ELSE {n \in DOMAIN Members(x) : KeyRank(n) < KeyRank(m)}

\* The pointer segment of member m of container x.
Segment(x, m) == IF x.k = "arr" THEN IntStr(m - 1) ELSE m

\* The zero-indexed line on which member m of container x starts, x starting on `line`.
MemberLine(x, m, line) ==
    line + 1 + SumOver([n \in DOMAIN Members(x) |-> NLines(Members(x)[n])], Before(x, m))

RECURSIVE Entries(_, _, _)
Entries(x, path, line) ==
    {[path |-> path, line |-> line]} \cup
    (IF x.k \in {"arr", "obj"}
     THEN UNION {Entries(Members(x)[m], Append(path, Segment(x, m)), MemberLine(x, m, line))
                    : m \in DOMAIN Members(x)}
     ELSE {})

\* calculate(json.dumps(...)): pointer -> value_start.line
Calculate(x) ==
    LET es == Entries(x, <<>>, 0)
    IN [p \in {e.path : e \in es} |-> (CHOOSE e \in es : e.path = p).line]

-----------------------------------------------------------------------------
(* The validator: `self` is the record of the instance's fields, with the  *)
(* history of _add_error calls in `log`.                                   *)

\* GeoJsonLint.__init__
New(crs) ==
    [check_crs |-> crs, feature_idx |-> None, line_map |-> NoLineMap,
     errors |-> <<>>, log |-> <<>>]

\* The position of `message` among the keys of self.errors, 0 when it is no key.
KeyIndex(errs, message) ==
    IF \E i \in 1..Len(errs) : errs[i].message = message
    THEN CHOOSE i \in 1..Len(errs) : errs[i].message = message
    ELSE 0

\* _add_error appending the line of a repeated message, and not its feature index.
AddErrorLinesOnly(self, message, line) ==
    LET i == KeyIndex(self.errors, message)
        occ == [message |-> message, line |-> line, feature |-> self.feature_idx]
    IN [self EXCEPT
          !.errors =
              IF i = 0
              THEN Append(@, [message |-> message, lines |-> <<line>>,
                              features |-> <<self.feature_idx>>])
              ELSE [@ EXCEPT ![i].lines = Append(@, line)],
          !.log = Append(@, occ)]

\* GeoJsonLint._add_error
AddError(self, message, line) ==
    LET i == KeyIndex(self.errors, message)
        occ == [message |-> message, line |-> line, feature |-> self.feature_idx]
    IN [self EXCEPT
          !.errors =
              IF i = 0
              THEN Append(@, [message |-> message, lines |-> <<line>>,
                              features |-> <<self.feature_idx>>])
              ELSE [@ EXCEPT ![i].lines = Append(@, line),
                             ![i].features = Append(@, self.feature_idx)],
          !.log = Append(@, occ)]

\* GeoJsonLint._get_line_number
GetLineNumber(self, path) ==
    IF path \in DOMAIN self.line_map THEN self.line_map[path] + 1 ELSE None

\* path.split("/" + name)[0]: the path up to the first segment `name`
RECURSIVE SplitHead(_, _)
SplitHead(path, name) ==
    IF path = <<>> \/ Head(path) = name THEN <<>>
    ELSE <<Head(path)>> \o SplitHead(Tail(path), name)


-----------------------------------------------------------------------------
(* The messages, rendered as the code's string literals and f-strings.     *)

RootMessage == "Root of GeoJSON must be an object/dictionary"

CrsMessage ==
    "The newest GeoJSON specification defines GeoJSON as always latitude/longitude, remove "
    \o "CRS (coordinate reference system) member"

FeatureDictMessage == "Every feature must be a dictionary/object."

FeatureIdMessage == "Feature \"id\" member must be a string or int number"

MissingTypeMessage == "Missing 'type' member"

InvalidTypeMessage(obj_type, allowed_types) ==
    "Invalid 'type' member, is '" \o PyStr(obj_type) \o "', must be one of "
    \o PyReprList(allowed_types)

RequiredMessage(name) == "\"" \o name \o "\" member required"

NotArrayMessage(name, value) ==
    "\"" \o name \o "\" member must be an array, but is a " \o TypeName(value) \o " instead"

NotObjectMessage(name, value) ==
    "\"" \o name \o "\" member must be an object/dictionary, but is a "
    \o TypeName(value) \o " instead"

PositionArrayMessage == "Coordinate position must be an array"

PositionLengthMessage == "Coordinate position must have exactly 2 or 3 values"

PositionNumberMessage == "Each element in a coordinate position must be a number"

CoordinatesArrayMessage == "Coordinates must be an array"

-----------------------------------------------------------------------------
(* The gates.  Each returns the instance after its _add_error calls (self) *)
(* and the boolean the method returns (r).                                 *)

\* GeoJsonLint._is_invalid_type_member
IsInvalidTypeMember(self, obj, allowed_types, path) ==
    IF ~IsDict(obj) THEN [self |-> self, r |-> TRUE]
    ELSE LET obj_type == Get(obj, "type") IN
         IF ~Truthy(obj_type)
         THEN [self |-> AddError(self, MissingTypeMessage,
                                 GetLineNumber(self, SplitHead(path, "type"))),
               r |-> TRUE]
         ELSE IF ~InList(obj_type, allowed_types)
         THEN [self |-> AddError(self, InvalidTypeMessage(obj_type, allowed_types),
                                 GetLineNumber(self, path)),
               r |-> TRUE]
         ELSE [self |-> self, r |-> FALSE]

\* GeoJsonLint._is_invalid_property
IsInvalidProperty(self, obj, name, type_str, path) ==
    IF name \notin DOMAIN obj.o
    THEN [self |-> AddError(self, RequiredMessage(name),
                            GetLineNumber(self, SplitHead(path, name))),
          r |-> TRUE]
    ELSE IF type_str = "array" /\ ~IsList(obj.o[name])
    THEN [self |-> AddError(self, NotArrayMessage(name, obj.o[name]),
                            GetLineNumber(self, path)),
          r |-> TRUE]
    ELSE IF type_str = "object" /\ ~IsDict(obj.o[name])
    THEN IF name \in {"geometry", "properties"} /\ obj.o[name].k = "null"
         THEN [self |-> self, r |-> FALSE]
         ELSE [self |-> AddError(self, NotObjectMessage(name, obj.o[name]),
                                 GetLineNumber(self, path)),
               r |-> TRUE]
    ELSE [self |-> self, r |-> FALSE]

-----------------------------------------------------------------------------
(* Positions *)

\* all(isinstance(coord, (int, float)) for coord in coords)
AllNumbers(coords) == \A i \in 1..Len(coords.a) : IsIntOrFloat(coords.a[i])

\* GeoJsonLint._validate_position
ValidatePosition(self, coords, path) ==
    IF ~IsList(coords)
    THEN AddError(self, PositionArrayMessage, GetLineNumber(self, path))
    ELSE LET s1 == IF Len(coords.a) < 2 \/ Len(coords.a) > 3
                   THEN AddError(self, PositionLengthMessage, GetLineNumber(self, path))
                   ELSE self
         IN IF ~AllNumbers(coords)
            THEN AddError(s1, PositionNumberMessage, GetLineNumber(s1, path))
            ELSE s1

RECURSIVE ValidatePositionArray(_, _, _, _)
RECURSIVE ValidatePositionArrayFrom(_, _, _, _, _)

\* The loop `for p in coords` of _validate_position_array, from element i on.
ValidatePositionArrayFrom(self, coords, i, depth, path) ==
    IF i > Len(coords.a) THEN self
    ELSE ValidatePositionArrayFrom(
             ValidatePositionArray(self, coords.a[i], depth - 1, path),
             coords, i + 1, depth, path)

\* _validate_position_array testing for a list before it tests the depth.
ValidatePositionArrayListFirst(self, coords, depth, path) ==
    IF ~IsList(coords)
    THEN AddError(self, CoordinatesArrayMessage, GetLineNumber(self, path))
    ELSE IF depth = 0 THEN ValidatePosition(self, coords, path)
    ELSE ValidatePositionArrayFrom(self, coords, 1, depth, path)

\* GeoJsonLint._validate_position_array
ValidatePositionArray(self, coords, depth, path) ==
    IF depth = 0 THEN ValidatePosition(self, coords, path)
    ELSE IF ~IsList(coords)
    THEN AddError(self, CoordinatesArrayMessage, GetLineNumber(self, path))
    ELSE ValidatePositionArrayFrom(self, coords, 1, depth, path)

-----------------------------------------------------------------------------
(* Geometries, features, collections *)

RECURSIVE ValidateGeometry(_, _, _)
RECURSIVE ValidateGeometriesFrom(_, _, _, _)

\* The loop `for idx, geom in enumerate(geometry["geometries"])`, from element i on.
ValidateGeometriesFrom(self, geometries, i, path) ==
    IF i > Len(geometries.a) THEN self
    ELSE ValidateGeometriesFrom(
             ValidateGeometry(self, geometries.a[i],
                              path \o <<"geometries", IntStr(i - 1)>>),
             geometries, i + 1, path)

\* The dispatch of _validate_geometry on the type of a geometry with coordinates.
ValidateCoordinates(self, obj_type, coordinates, path) ==
    IF InList(obj_type, <<"Point">>)
    THEN ValidatePosition(self, coordinates, path)
    ELSE IF InList(obj_type, <<"LineString", "MultiPoint">>)
    THEN ValidatePositionArray(self, coordinates, 1, path)
    ELSE IF InList(obj_type, <<"Polygon", "MultiLineString">>)
    THEN ValidatePositionArray(self, coordinates, 2, path)
    ELSE IF InList(obj_type, <<"MultiPolygon">>)
    THEN ValidatePositionArray(self, coordinates, 3, path)
    ELSE self

\* GeoJsonLint._validate_geometry
ValidateGeometry(self, geometry, path) ==
    LET gate == IsInvalidTypeMember(self, geometry, GEOMETRY_TYPES, Append(path, "type"))
    IN IF gate.r THEN gate.self
       ELSE LET obj_type == Get(geometry, "type") IN
            IF EqStr(obj_type, "GeometryCollection")
            THEN LET g == IsInvalidProperty(gate.self, geometry, "geometries", "array", path)
                 IN IF g.r THEN g.self
                    ELSE ValidateGeometriesFrom(g.self, geometry.o["geometries"], 1, path)
            ELSE LET c == IsInvalidProperty(gate.self, geometry, "coordinates", "array", path)
                 IN IF c.r THEN c.self
                    ELSE ValidateCoordinates(c.self, obj_type, geometry.o["coordinates"],
                                             Append(path, "coordinates"))

\* GeoJsonLint._validate_feature
ValidateFeature(self, feature, path) ==
    LET s1 == IsInvalidTypeMember(self, feature, <<"Feature">>, Append(path, "type")).self
        s2 == IF "id" \in DOMAIN feature.o /\ ~IsStrOrInt(feature.o["id"])
              THEN AddError(s1, FeatureIdMessage, GetLineNumber(s1, Append(path, "id")))
              ELSE s1
        s3 == IsInvalidProperty(s2, feature, "properties", "object",
                                Append(path, "properties")).self
        s4 == IsInvalidProperty(s3, feature, "geometry", "object",
                                Append(path, "geometry")).self
        geom == Get(feature, "geometry")
    IN IF Truthy(geom) THEN ValidateGeometry(s4, geom, Append(path, "geometry")) ELSE s4

RECURSIVE ValidateFeaturesFromUnindexed(_, _, _, _)

\* The loop over "features" without `self.feature_idx = idx`.
ValidateFeaturesFromUnindexed(self, features, i, path) ==
    IF i > Len(features.a) THEN self
    ELSE LET fpath == path \o <<"features", IntStr(i - 1)>>
             s2 == IF ~IsDict(features.a[i])
                   THEN AddError(self, FeatureDictMessage, GetLineNumber(self, fpath))
                   ELSE ValidateFeature(self, features.a[i], fpath)
         IN ValidateFeaturesFromUnindexed(s2, features, i + 1, path)

RECURSIVE ValidateFeaturesFrom(_, _, _, _)

\* The loop `for idx, feature in enumerate(feature_collection["features"])`, from element i on.
ValidateFeaturesFrom(self, features, i, path) ==
    IF i > Len(features.a) THEN self
    ELSE LET s1 == [self EXCEPT !.feature_idx = i - 1]
             fpath == path \o <<"features", IntStr(i - 1)>>
             s2 == IF ~IsDict(features.a[i])
                   THEN AddError(s1, FeatureDictMessage, GetLineNumber(s1, fpath))
                   ELSE ValidateFeature(s1, features.a[i], fpath)
         IN ValidateFeaturesFrom(s2, features, i + 1, path)

\* GeoJsonLint._validate_feature_collection
ValidateFeatureCollection(self, feature_collection, path) ==
    LET s1 == IsInvalidTypeMember(self, feature_collection, <<"FeatureCollection">>,
                                  Append(path, "type")).self
        s2 == IF self.check_crs /\ "crs" \in DOMAIN feature_collection.o
              THEN AddError(s1, CrsMessage, GetLineNumber(s1, Append(path, "crs")))
              ELSE s1
        f == IsInvalidProperty(s2, feature_collection, "features", "array",
                               Append(path, "features"))
    IN IF f.r THEN f.self
       ELSE ValidateFeaturesFrom(f.self, feature_collection.o["features"], 1, path)

\* GeoJsonLint._validate_geojson_root
ValidateGeojsonRoot(self, obj) ==
    LET root_path == <<>>
        gate == IsInvalidTypeMember(self, obj, GEOJSON_TYPES, root_path)
    IN IF gate.r THEN gate.self
       ELSE LET obj_type == Get(obj, "type") IN
            IF EqStr(obj_type, "FeatureCollection")
            THEN ValidateFeatureCollection(gate.self, obj, root_path)
            ELSE IF EqStr(obj_type, "Feature")
            THEN ValidateFeature(gate.self, obj, root_path)
            ELSE IF InList(obj_type, GEOMETRY_TYPES)
            THEN ValidateGeometry(gate.self, obj, root_path)
            ELSE gate.self

\* lint building the position map before it tests for an object.
LintCallMapFirst(self, geojson_data) ==
    LET mapped == [self EXCEPT !.line_map = Calculate(geojson_data)]
    IN IF ~IsDict(geojson_data)
       THEN AddError(mapped, RootMessage, 0)
       ELSE ValidateGeojsonRoot(mapped, geojson_data)

\* GeoJsonLint.lint: the instance after the call; the call returns its errors.
LintCall(self, geojson_data) ==
    IF ~IsDict(geojson_data)
    THEN AddError(self, RootMessage, 0)
    ELSE ValidateGeojsonRoot([self EXCEPT !.line_map = Calculate(geojson_data)],
                             geojson_data)

-----------------------------------------------------------------------------
(* The documents handed to lint *)

\* A member left out of an object.
Absent == [k |-> "absent"]

\* An object of the members given that are not Absent.
Member(name, value) == IF value.k = "absent" THEN <<>> ELSE name :> value

Geometry(type, coordinates) ==
    JObj(Member("type", type) @@ Member("coordinates", coordinates))

GeometryCollection(geometries) ==
    JObj(Member("type", JStr("GeometryCollection")) @@ Member("geometries", geometries))

Feature(type, id, properties, geometry) ==
    JObj(Member("type", type) @@ Member("id", id) @@ Member("properties", properties)
         @@ Member("geometry", geometry))

FeatureCollection(crs, features) ==
    JObj(Member("type", JStr("FeatureCollection")) @@ Member("crs", crs)
         @@ Member("features", features))

\* Sequences over S of length lo..hi
SeqsOf(S, lo, hi) == UNION {[1..n -> S] : n \in lo..hi}

ArraysOf(S, lo, hi) == {JArr(a) : a \in SeqsOf(S, lo, hi)}

MaxCalls == 2
MaxPosition == 4
MaxRing == 2
MaxGeometries == 2
MaxFeatures == 2

ValidPosition == JArr(<<JInt("1"), JInt("2")>>)
ValidPoint == Geometry(JStr("Point"), ValidPosition)
ValidFeature == Feature(JStr("Feature"), Absent, JNull, JNull)

NonObjects == {JNull, JBool("true"), JInt("5"), JFloat("1.5"), JStr("Point"), JArr(<<>>),
               JArr(<<ValidPoint>>)}

\* Candidate positions: arrays of 0..MaxPosition scalars
PositionElements == {JInt("1"), JFloat("0.5"), JStr("a"), JBool("true"), JNull}
Positions == ArraysOf(PositionElements, 0, MaxPosition)

\* Candidate coordinates of nesting depth 1, 2 and 3
Level1 == ArraysOf({ValidPosition, JInt("1")}, 0, MaxRing)
Level2 == {JArr(<<r>>) : r \in Level1} \cup {JArr(<<r, r>>) : r \in Level1}
Level3 == {JArr(<<p>>) : p \in Level2}

Coordinates ==
    {Absent, JNull, JInt("1"), JStr("a"), EmptyDict,
     JArr(<<JInt("1")>>), JArr(<<JStr("a")>>), JArr(<<JInt("1"), JInt("2"), JInt("3")>>)}
    \cup Level1 \cup Level2 \cup Level3

CoordinateTypes ==
    {"Point", "LineString", "Polygon", "MultiPoint", "MultiLineString", "MultiPolygon"}

TypeValues ==
    {Absent, JNull, JStr(""), JInt("0"), JInt("1"), JBool("true"), JStr("Foo"), JStr("point"),
     JStr("Feature"), JStr("FeatureCollection"), JStr("GeometryCollection")}
    \cup {JStr(t) : t \in CoordinateTypes}

PointDocs == {Geometry(JStr("Point"), c) : c \in Positions}

GeometryDocs == {Geometry(t, c) : t \in TypeValues, c \in Coordinates}

\* Candidate elements of a "geometries" array
GeometryElements ==
    {ValidPoint, Geometry(JStr("Point"), JArr(<<JStr("a")>>)), EmptyDict, JInt("42"),
     Geometry(JStr("Feature"), JArr(<<JInt("1")>>)), Geometry(Absent, JArr(<<JInt("1")>>)),
     GeometryCollection(Absent),
     GeometryCollection(JArr(<<Geometry(JStr("Point"), JArr(<<JInt("1")>>))>>))}

CollectionDocs ==
    {GeometryCollection(g) :
        g \in {Absent, JNull, EmptyDict} \cup ArraysOf(GeometryElements, 0, MaxGeometries)}

\* Candidate "geometry" members of a Feature
FeatureGeometries ==
    {Absent, JNull, EmptyDict, JInt("42"), JStr("Point"), JArr(<<ValidPoint>>), ValidPoint,
     Geometry(JStr("Point"), JArr(<<JStr("a")>>)),
     Geometry(JStr("Feature"), JArr(<<JInt("1")>>)),
     Geometry(JStr("FeatureCollection"), Absent),
     Geometry(JStr("Foo"), JArr(<<JInt("1")>>)),
     Geometry(Absent, JArr(<<JInt("1")>>)),
     Geometry(JStr("MultiPolygon"), JArr(<<JArr(<<ValidPosition, ValidPosition>>)>>)),
     GeometryCollection(Absent),
     GeometryCollection(JArr(<<EmptyDict, Geometry(JStr("Point"), JArr(<<JInt("1")>>))>>))}

FeatureTypes == {JStr("Feature"), Absent, JStr("Foo"), JStr("Point")}
FeatureIds == {Absent, JStr("a"), JInt("7"), JFloat("1.5"), JBool("true"), JNull}
FeatureProperties == {Absent, JNull, EmptyDict, JInt("42")}

Features ==
    {Feature(t, i, p, g) :
        t \in FeatureTypes, i \in FeatureIds, p \in FeatureProperties,
        g \in FeatureGeometries}

FeatureDocs == {f \in Features : EqStr(Get(f, "type"), "Feature")}

\* Candidate elements of a "features" array
FeatureElements ==
    {ValidFeature, JInt("42"), JArr(<<ValidFeature>>), EmptyDict,
     Feature(JStr("Feature"), JFloat("1.5"), Absent, Absent),
     Feature(JStr("Foo"), Absent, JNull, ValidPoint),
     Feature(JStr("Feature"), Absent, JNull, Geometry(JStr("Point"), JArr(<<JStr("a")>>))),
     Feature(JStr("Feature"), Absent, JNull, EmptyDict),
     Feature(JStr("Feature"), Absent, JNull,
             GeometryCollection(JArr(<<Geometry(JStr("Foo"), Absent)>>)))}

FeatureCollectionDocs ==
    {FeatureCollection(c, f) :
        c \in {Absent, JNull, JStr("EPSG:4326")},
        f \in {Absent, JNull, EmptyDict} \cup ArraysOf(FeatureElements, 0, MaxFeatures)
              \cup {JArr(<<e>>) : e \in Features}}

\* The documents of the single-call specification
Documents ==
    NonObjects \cup PointDocs \cup GeometryDocs \cup CollectionDocs \cup FeatureDocs
    \cup FeatureCollectionDocs

\* The documents of the many-call specification
ReuseDocuments ==
    {JInt("5"), JArr(<<>>), EmptyDict, ValidPoint,
     Geometry(JStr("Point"), JArr(<<JInt("1")>>)),
     Geometry(JStr("Foo"), Absent),
     Feature(JStr("Feature"), Absent, Absent, Absent),
     Feature(JStr("Feature"), JStr("a"), JNull,
             Geometry(JStr("Point"), JArr(<<JStr("a")>>))),
     FeatureCollection(Absent, Absent),
     FeatureCollection(Absent, JArr(<<>>)),
     FeatureCollection(Absent, JArr(<<ValidFeature, JInt("42")>>)),
     FeatureCollection(JNull, JArr(<<EmptyDict>>))}

-----------------------------------------------------------------------------
(* The state machine: one instance, constructed once, linting documents.   *)

\* The instance's fields as the record the operators thread.
Self ==
    [check_crs |-> check_crs, feature_idx |-> feature_idx, line_map |-> line_map,
     errors |-> errors, log |-> log]

\* GeoJsonLint(check_crs): no call made yet
Init ==
    /\ check_crs \in BOOLEAN
    /\ feature_idx = None
    /\ line_map = NoLineMap
    /\ errors = <<>>
    /\ log = <<>>
    /\ calls = 0
    /\ doc = JNull
    /\ ret = <<>>
    /\ mark = 0

\* One call lint(d): the fields after it, the document it was given, the report it
\* returned, and the length the history had when the call began.
Lint(d) ==
    LET after == LintCall(Self, d) IN
    /\ check_crs' = after.check_crs
    /\ feature_idx' = after.feature_idx
    /\ line_map' = after.line_map
    /\ errors' = after.errors
    /\ log' = after.log
    /\ calls' = calls + 1
    /\ doc' = d
    /\ ret' = after.errors
    /\ mark' = Len(log)

Next == \E d \in ReuseDocuments : calls < MaxCalls /\ Lint(d)

Spec == Init /\ [][Next]_vars

NextOne == \E d \in Documents : calls < 1 /\ Lint(d)

SpecOne == Init /\ [][NextOne]_vars

-----------------------------------------------------------------------------
(* What the claims speak of *)

\* The seven geometry type names of the GeoJSON taxonomy.
SevenTypes ==
    <<"Point", "LineString", "Polygon", "MultiPoint", "MultiLineString", "MultiPolygon",
      "GeometryCollection">>

\* The _add_error calls of the last lint call, in order.
Occurrences == SubSeq(log, mark + 1, Len(log))

\* The messages of a report.
Messages(report) == {report[i].message : i \in 1..Len(report)}

\* A node of the last document: its path, its value, the type names allowed at it.
Node(path, value, allowed) == [path |-> path, node |-> value, allowed |-> allowed]

\* The lines the node takes in the canonical text, as the report numbers them.
FirstLine(n) == Calculate(doc)[n.path] + 1
LinesOf(n) == FirstLine(n)..(FirstLine(n) + NLines(n.node) - 1)

\* The occurrences of the last call recorded at a line of the node.
OccurrencesIn(n) == SelectSeq(Occurrences, LAMBDA o : o.line \in LinesOf(n))

HasType(x, names) == IsDict(x) /\ InList(Get(x, "type"), names)
HasArray(x, name) == IsDict(x) /\ IsList(Get(x, name))

\* The geometry nodes the walk visits at and below a geometry value.
RECURSIVE GeometryNodes(_, _)
GeometryNodes(g, path) ==
    {Node(path, g, SevenTypes)} \cup
    (IF HasType(g, <<"GeometryCollection">>) /\ HasArray(g, "geometries")
     THEN UNION {GeometryNodes(g.o["geometries"].a[i],
                               path \o <<"geometries", IntStr(i - 1)>>)
                    : i \in 1..Len(g.o["geometries"].a)}
     ELSE {})

\* The nodes the feature validator is applied to: a root Feature, the elements of "features".
FeatureNodes ==
    IF HasType(doc, <<"Feature">>) THEN {Node(<<>>, doc, <<"Feature">>)}
    ELSE IF HasType(doc, <<"FeatureCollection">>) /\ HasArray(doc, "features")
    THEN {Node(<<"features", IntStr(i - 1)>>, doc.o["features"].a[i], <<"Feature">>)
             : i \in 1..Len(doc.o["features"].a)}
    ELSE {}

\* The geometry nodes reached below a Feature: its "geometry" and the "geometries" under it.
NestedGeometryNodes ==
    UNION {IF HasType(f.node, <<"Feature">>) /\ IsDict(Get(f.node, "geometry"))
           THEN GeometryNodes(f.node.o["geometry"], Append(f.path, "geometry"))
           ELSE {}
              : f \in FeatureNodes}

\* The geometry nodes under a root GeometryCollection.
RootGeometryNodes ==
    IF HasType(doc, SevenTypes) THEN GeometryNodes(doc, <<>>) \ {Node(<<>>, doc, SevenTypes)}
    ELSE {}

\* Every node the walk visits.
VisitedNodes ==
    {Node(<<>>, doc, <<"FeatureCollection", "Feature">> \o SevenTypes)}
    \cup FeatureNodes \cup NestedGeometryNodes \cup RootGeometryNodes

\* The node is an object whose "type" is missing or not one allowed at it.
GateFails(n) == IsDict(n.node) /\ ~HasType(n.node, n.allowed)

AllowedLists ==
    {GEOMETRY_TYPES, GEOJSON_TYPES, SevenTypes, <<"Feature">>, <<"FeatureCollection">>,
     <<"FeatureCollection", "Feature">> \o SevenTypes}

\* The message is an "Invalid 'type' member" message about the node's type.
IsInvalidTypeMessage(m, n) ==
    /\ "type" \in DOMAIN n.node.o
    /\ \E allowed \in AllowedLists : m = InvalidTypeMessage(n.node.o["type"], allowed)

\* The message is one the type gate records for the node.
IsGateMessage(m, n) == m = MissingTypeMessage \/ IsInvalidTypeMessage(m, n)

\* The node's subtree holds the gate's message and nothing else.
OnlyGateMessage(n) ==
    /\ Len(OccurrencesIn(n)) = 1
    /\ IsGateMessage(OccurrencesIn(n)[1].message, n)

\* A JSON number: Python decodes it to an int or a float, never to a bool.
IsJsonNumber(x) == x.k \in {"int", "float"}

\* C1: each call's report is the report a fresh validator with the same check_crs
\* returns for that call's document alone.
C1_ReportOfFreshValidator ==
    calls > 0 => ret = LintCall(New(check_crs), doc).errors

\* C2: a visited object whose type is missing or not allowed yields the gate's own
\* message and no error from its other members or descendants.
C2_GateHaltsSubtree ==
    (calls > 0 /\ IsDict(doc)) =>
        \A n \in VisitedNodes : GateFails(n) => OnlyGateMessage(n)

\* C3: a geometry below a Feature or in "geometries" whose type is a non-empty string
\* other than the seven geometry type names yields an "Invalid 'type' member" message,
\* and nothing below it is validated.
C3_SevenGeometryTypes ==
    (calls > 0 /\ IsDict(doc)) =>
        \A n \in NestedGeometryNodes \cup RootGeometryNodes :
            (IsDict(n.node) /\ Get(n.node, "type").k = "str" /\ Get(n.node, "type").v # ""
             /\ ~HasType(n.node, SevenTypes))
            => /\ Len(OccurrencesIn(n)) = 1
               /\ IsInvalidTypeMessage(OccurrencesIn(n)[1].message, n)

\* C4: on a fresh validator a document that is not an object yields exactly the entry
\* 'Root of GeoJSON must be an object/dictionary' with lines [0] and features [None],
\* and no position map or traversal is made.
C4_NonObjectRoot ==
    (calls = 1 /\ ~IsDict(doc)) =>
        /\ ret = <<[message |-> RootMessage, lines |-> <<0>>, features |-> <<None>>]>>
        /\ errors = ret
        /\ line_map = NoLineMap
        /\ feature_idx = None
        /\ Len(log) = 1

C4_Witness == calls = 1 /\ doc = JArr(<<ValidPoint>>) /\ Len(ret) = 1

\* The nesting depth of the coordinates of a geometry type.
DepthOf(type) ==
    CASE type = "Point" -> 0
      [] type \in {"LineString", "MultiPoint"} -> 1
      [] type \in {"Polygon", "MultiLineString"} -> 2
      [] type = "MultiPolygon" -> 3

\* A position: an array of 2 or 3 JSON numbers.
IsPosition(c) ==
    IsList(c) /\ Len(c.a) \in {2, 3} /\ \A i \in 1..Len(c.a) : IsJsonNumber(c.a[i])

\* Coordinates of the given nesting depth, positions at the leaves.
RECURSIVE WellNested(_, _)
WellNested(c, depth) ==
    IF depth = 0 THEN IsPosition(c)
    ELSE IsList(c) /\ \A i \in 1..Len(c.a) : WellNested(c.a[i], depth - 1)

\* A geometry the GeoJSON type hierarchy accepts.
RECURSIVE WellFormedGeometry(_)
WellFormedGeometry(g) ==
    /\ HasType(g, SevenTypes)
    /\ IF g.o["type"].v = "GeometryCollection"
       THEN /\ HasArray(g, "geometries")
            /\ \A i \in 1..Len(g.o["geometries"].a) :
                   WellFormedGeometry(g.o["geometries"].a[i])
       ELSE /\ HasArray(g, "coordinates")
            /\ WellNested(g.o["coordinates"], DepthOf(g.o["type"].v))

\* A Feature the GeoJSON type hierarchy accepts.
WellFormedFeature(f) ==
    /\ HasType(f, <<"Feature">>)
    /\ "id" \in DOMAIN f.o => f.o["id"].k \in {"str", "int"}
    /\ "properties" \in DOMAIN f.o /\ f.o["properties"].k \in {"null", "obj"}
    /\ "geometry" \in DOMAIN f.o
    /\ f.o["geometry"].k = "null" \/ WellFormedGeometry(f.o["geometry"])

\* Element i (from 1) of the "features" of the last document.
FeatureNode(i) ==
    Node(<<"features", IntStr(i - 1)>>, doc.o["features"].a[i], <<"Feature">>)

FeaturesExample == FeatureCollection(Absent, JArr(<<ValidFeature, JInt("42")>>))

\* C5: in a FeatureCollection every occurrence recorded for features[i] carries feature
\* index i, a non-object element yields 'Every feature must be a dictionary/object.',
\* a well-formed feature yields nothing, and [valid feature, 42] yields one occurrence,
\* with feature index 1.
C5_FeatureIndexOfOccurrences ==
    (calls > 0 /\ HasType(doc, <<"FeatureCollection">>) /\ HasArray(doc, "features")) =>
        /\ \A i \in 1..Len(doc.o["features"].a) :
              LET inside == OccurrencesIn(FeatureNode(i)) IN
              /\ \A j \in 1..Len(inside) : inside[j].feature = i - 1
              /\ ~IsDict(FeatureNode(i).node) =>
                     inside = <<[message |-> FeatureDictMessage,
                                 line |-> FirstLine(FeatureNode(i)), feature |-> i - 1]>>
              /\ WellFormedFeature(FeatureNode(i).node) => inside = <<>>
        /\ doc = FeaturesExample =>
              Occurrences = <<[message |-> FeatureDictMessage, line |-> 8, feature |-> 1]>>

C5_Witness ==
    /\ calls > 0
    /\ doc = FeatureCollection(Absent,
                 JArr(<<Feature(JStr("Feature"), JFloat("1.5"), Absent, Absent),
                        Feature(JStr("Feature"), Absent, JNull,
                                Geometry(JStr("Point"), JArr(<<JStr("a")>>)))>>))
    /\ Len(OccurrencesIn(FeatureNode(1))) = 3
    /\ Len(OccurrencesIn(FeatureNode(2))) = 2
    /\ feature_idx = 1

\* C6: for a Point whose coordinates is an array, the length message is reported iff
\* the length is not 2 or 3, and the number message iff some element is not a JSON
\* number.
C6_PositionLeafChecks ==
    (calls > 0 /\ HasType(doc, <<"Point">>) /\ HasArray(doc, "coordinates")) =>
        LET c == doc.o["coordinates"].a IN
        /\ PositionLengthMessage \in Messages(ret) <=> Len(c) \notin {2, 3}
        /\ PositionNumberMessage \in Messages(ret)
               <=> \E i \in 1..Len(c) : ~IsJsonNumber(c[i])

\* Polygon-shaped coordinates: one ring or more, each of one position or more.
PolygonShaped(c) ==
    /\ WellNested(c, 2)
    /\ Len(c.a) > 0
    /\ \A i \in 1..Len(c.a) : Len(c.a[i].a) > 0

\* The numbers in the positions of polygon-shaped coordinates.
NumbersIn(c) ==
    SumOver([i \in 1..Len(c.a) |->
                SumOver([j \in 1..Len(c.a[i].a) |-> Len(c.a[i].a[j].a)],
                        1..Len(c.a[i].a))],
            1..Len(c.a))

MultiPolygonOfDepth2 ==
    /\ calls > 0
    /\ HasType(doc, <<"MultiPolygon">>)
    /\ HasArray(doc, "coordinates")
    /\ PolygonShaped(doc.o["coordinates"])

\* C7: a MultiPolygon with polygon-shaped coordinates yields 'Coordinates must be an
\* array'.
C7_CoordinatesMustBeArray ==
    MultiPolygonOfDepth2 => CoordinatesArrayMessage \in Messages(ret)

\* C7, amended: a MultiPolygon with polygon-shaped coordinates yields 'Coordinate
\* position must be an array', once for every number of every position, at the line of
\* "coordinates", and nothing else.
C7_PositionMustBeArray ==
    MultiPolygonOfDepth2 =>
        /\ PositionArrayMessage \in Messages(ret)
        /\ Len(Occurrences) = NumbersIn(doc.o["coordinates"])
        /\ \A i \in 1..Len(Occurrences) :
              Occurrences[i] = [message |-> PositionArrayMessage,
                                line |-> Calculate(doc)[<<"coordinates">>] + 1,
                                feature |-> None]

C7_Witness ==
    /\ calls > 0
    /\ doc = Geometry(JStr("MultiPolygon"),
                      JArr(<<JArr(<<ValidPosition, ValidPosition>>),
                             JArr(<<ValidPosition, ValidPosition>>)>>))
    /\ Len(Occurrences) = 8

\* The occurrences of the history with the given message, in order.
OccurrencesOf(message) == SelectSeq(log, LAMBDA o : o.message = message)

\* C8: in every state of the report each entry's lines and features have the same
\* length of at least 1 and pair up, in order, as the occurrences recorded with the
\* entry's message; no two entries share a message; the occurrences of all entries
\* are as many as the _add_error calls made.
C8_ReportShape ==
    /\ \A i \in 1..Len(errors) :
          /\ Len(errors[i].lines) = Len(errors[i].features)
          /\ Len(errors[i].lines) >= 1
          /\ Len(errors[i].lines) = Len(OccurrencesOf(errors[i].message))
          /\ \A j \in 1..Len(errors[i].lines) :
                /\ errors[i].lines[j] = OccurrencesOf(errors[i].message)[j].line
                /\ errors[i].features[j] = OccurrencesOf(errors[i].message)[j].feature
    /\ \A i, j \in 1..Len(errors) : errors[i].message = errors[j].message => i = j
    /\ SumOver([i \in 1..Len(errors) |-> Len(errors[i].lines)], 1..Len(errors)) = Len(log)

C8_Witness ==
    /\ Len(errors) >= 3
    /\ \E i \in 1..Len(errors) :
          /\ Len(errors[i].lines) >= 2
          /\ errors[i].features[1] # errors[i].features[2]
          /\ errors[i].lines[1] # errors[i].lines[2]

\* The elements of the "features" array of the last document, as nodes.
FeatureElementNodes ==
    IF HasType(doc, <<"FeatureCollection">>) /\ HasArray(doc, "features")
    THEN {FeatureNode(i) : i \in 1..Len(doc.o["features"].a)}
    ELSE {}

\* The occurrence was recorded for a node outside every "features" array.
OutsideFeatures(o) ==
    ~IsDict(doc) \/ \A f \in FeatureElementNodes : o.line \notin LinesOf(f)

\* C9: the current feature index is absent whenever no "features" iteration is under
\* way, so every error recorded for a node outside a "features" array has an absent
\* feature index, also in a call that follows the lint of a non-empty FeatureCollection.
C9_FeatureIndexAbsentOutside ==
    /\ feature_idx = None
    /\ \A i \in 1..Len(Occurrences) :
          OutsideFeatures(Occurrences[i]) => Occurrences[i].feature = None

\* The "geometry" member of a feature node, as a node.
GeometryOf(f) == Node(Append(f.path, "geometry"), f.node.o["geometry"], SevenTypes)

\* What the geometry validator records for the node, called with the position map and
\* the feature index the walk has there.
GeometryValidatorOn(n, idx) ==
    ValidateGeometry([New(check_crs) EXCEPT !.line_map = Calculate(doc),
                                            !.feature_idx = idx],
                     n.node, n.path).log

\* C10: for every Feature whose "geometry" is an object, the empty object included, the
\* geometry validator is applied to it at .../geometry; a geometry object without a
\* "type" member yields "Missing 'type' member".
C10_GeometryObjectValidated ==
    (calls > 0 /\ IsDict(doc)) =>
        \A f \in FeatureNodes :
            (HasType(f.node, <<"Feature">>) /\ IsDict(Get(f.node, "geometry"))) =>
                LET g == GeometryOf(f)
                    idx == IF f.path = <<>> THEN None
                           ELSE CHOOSE i \in 0..9 : IntStr(i) = f.path[2]
                IN /\ OccurrencesIn(g) = GeometryValidatorOn(g, idx)
                   /\ "type" \notin DOMAIN g.node.o =>
                          \E i \in 1..Len(OccurrencesIn(g)) :
                              /\ OccurrencesIn(g)[i].message = MissingTypeMessage
                              /\ OccurrencesIn(g)[i].line = FirstLine(g)

====
